---- MODULE Spec2Model ----
(***************************************************************************)
(* fw-GAMBAS: the Run Supervisor (run.py: main), the Unit Processor        *)
(* (run.py: fw_process_subject) and the Hierarchical Importer with its     *)
(* label resolution, file filter and dataset build (utils/parser.py).      *)
(*                                                                         *)
(* Collaborators that live outside these files (parse_input_files,         *)
(* Registration, create_model, inference, option resolution, os.remove,    *)
(* the platform client, the log file write) are the environment: each call *)
(* site draws the collaborator's outcome from the outcomes its interface   *)
(* allows (a value, a sentinel, an exception).                             *)
(***************************************************************************)
EXTENDS Integers, Sequences, FiniteSets, TLC

\* ------------------------------------------------------------------ bounds
MaxPairs == 2        \* (subject, session) pairs in the subses mapping
MaxFiles == 3        \* candidate images in the whole dataset (all sessions)
MaxSes == 3          \* sessions under the imported subject
MaxLabelChars == 4   \* characters of the subject's raw session labels, in total
MaxSame == 28        \* sessions under a subject whose sessions share one label
MaxOther == 1        \* sessions of that subject that carry another label
MaxSubs == 2         \* subjects of the imported project
MaxProjSes == 3      \* sessions of the imported project (all subjects)
MaxListing == 2      \* files of the session whose download is followed
MaxRuns == 2         \* runs of the importer against the same target directory
MaxProjChars == 2    \* characters of the project label of the compared imports
MaxFrags == 3        \* fragments a file name is put together from

VARIABLES
    \* Run Supervisor (main)
    npairs,        \* number of (sub, ses) pairs of subses, iterated as 1..npairs
    mpc,           \* main's position: "off" (loop not started), "call", "unit",
                   \* "handle", "done", "raised"
    cur,           \* index of the pair of the current loop iteration
    invoked,       \* pairs for which fw_process_subject was called, in call order
    results,       \* pair -> the triple fw_process_subject returned (or NoResult)
    handled,       \* pairs whose loop iteration ran to its end (continue / last upload)
    removed,       \* paths os.remove deleted
    rmTried,       \* paths handed to os.remove, in order
    analyses,      \* analysis records created: [ses, status, files]
    \* Unit Processor (fw_process_subject)
    upc,           \* "idle", "try", "files", "finally", "return"
    handlers,      \* handlers attached to the root logger (one per invoking pair)
    bound,         \* whether raw_fnames and deriv_fnames are assigned
    raw_fnames, deriv_fnames, logs,
    fi,            \* index in raw_fnames of the candidate the for loop is at
    cstate,        \* per candidate of this invocation: its state
    calls,         \* per candidate of this invocation: the collaborator calls made
    logfiles,      \* log files written to disk
    escaped,       \* pairs whose invocation ended by an exception leaving it
    raisedBy,      \* what ended the run: "none", "UnboundLocalError", "logwrite", "publish"
    \* Hierarchical Importer (download_subject)
    ipc,           \* "off", "sessions", "returned", "raised"
    sesLabels,     \* raw labels of the sessions iterated so far, in order
    si,            \* number of the session the for loop is at
    sessions_out,  \* the dict, as its items in insertion order
    assigned,      \* history: the key each session was stored under, in order
    disk,          \* target paths present under sub_dir: <<folder, file name>>
    fetched,       \* sessions whose file.download was called, in call order
    \* Label Resolver (make_subject_label, make_session_label, make_project_label)
    lpc,           \* "off", "resolve", "done", "raised"
    lrKind,        \* which rule: "subject", "session", "project"
    lrLabel,       \* the raw label
    lrOut,         \* the results of applying the rule to the label, then to its result
    \* Hierarchical Importer and Dataset Builder, project-rooted
    \* (download_dataset, download_project)
    ppc,           \* "off", "subjects", "import", "returned", "raised"
    pErr,          \* what raised: "none", "IndexError", "import_dicom_folder"
    projLabel,     \* the project's raw label
    subRaw,        \* subjects iterated so far: [label, sessions (raw labels)]
    subjects_out,  \* the dict of download_project, as its items in insertion order
    pdisk,         \* target paths present under sourcedata
    psub,          \* index in subjects.keys() the import loop is at
    output,        \* the dict download_dataset builds, as its items in insertion order
    \* Hierarchical Importer, one session (download_session, download_file)
    fpc,           \* "off", "files", "returned", "raised"
    listing,       \* the session's files in visiting order: [name, type]
    dry_run,       \* the dry_run argument
    frun,          \* number of the importer run
    fx,            \* index in listing of the file the loops are at
    fmk,           \* os.makedirs calls: <<run, index in listing of the file>>
    fdisk,         \* target paths present
    dlCalls,       \* file.download calls: [run, file, name, existed, outcome]
    fret,          \* what download_session returned in this run (or <<>>)
    \* Dataset Builder (download_dataset) on one session, by kind of root
    rpc,           \* "off", "roots"
    rProj, rSub, rSes,   \* raw labels of the project, the subject, the session
    rootRes        \* kind of root -> what download_dataset did (or NoRoot)

runVars == <<npairs, mpc, cur, invoked, results, handled, removed, rmTried, analyses,
             upc, handlers, bound, raw_fnames, deriv_fnames, logs, fi, cstate,
             calls, logfiles, escaped, raisedBy>>
impVars == <<ipc, sesLabels, si, sessions_out, assigned, disk, fetched>>
lblVars == <<lpc, lrKind, lrLabel, lrOut>>
prjVars == <<ppc, pErr, projLabel, subRaw, subjects_out, pdisk, psub, output>>
filVars == <<fpc, listing, dry_run, frun, fx, fmk, fdisk, dlCalls, fret>>
rootVars == <<rpc, rProj, rSub, rSes, rootRes>>
notRun == <<impVars, lblVars, prjVars, filVars, rootVars>>
notImp == <<runVars, lblVars, prjVars, filVars, rootVars>>
notLbl == <<runVars, impVars, prjVars, filVars, rootVars>>
notPrj == <<runVars, impVars, lblVars, filVars, rootVars>>
notFil == <<runVars, impVars, lblVars, prjVars, rootVars>>
notRoot == <<runVars, impVars, lblVars, prjVars, filVars>>
vars == <<runVars, impVars, lblVars, prjVars, filVars, rootVars>>

LabelOff ==
    /\ lpc = "off"
    /\ lrKind = "none"
    /\ lrLabel = <<>>
    /\ lrOut = <<>>

ProjectOff ==
    /\ ppc = "off"
    /\ pErr = "none"
    /\ projLabel = <<>>
    /\ subRaw = <<>>
    /\ subjects_out = <<>>
    /\ pdisk = {}
    /\ psub = 1
    /\ output = <<>>

FilesOff ==
    /\ fpc = "off"
    /\ listing = <<>>
    /\ dry_run = FALSE
    /\ frun = 1
    /\ fx = 1
    /\ fmk = {}
    /\ fdisk = {}
    /\ dlCalls = <<>>
    /\ fret = <<>>

RootKinds == {"project", "subject", "session"}
NoRoot == [folder |-> <<>>, paths |-> {}, ret |-> "none"]

RootsOff ==
    /\ rpc = "off"
    /\ rProj = <<>>
    /\ rSub = <<>>
    /\ rSes = <<>>
    /\ rootRes = [k \in RootKinds |-> NoRoot]

\* The parts of the program a specification leaves out stay as they start.
ExtraOff == LabelOff /\ ProjectOff /\ FilesOff /\ RootsOff

Range(s) == {s[i] : i \in 1..Len(s)}
Count(x, s) == Cardinality({i \in 1..Len(s) : s[i] = x})

\* ------------------------------------------------------------ file paths
\* A path is <<kind, pair, orientation, number>>.
RawPath(s, ori, k) == <<"raw", s, ori, k>>
ResultSr(s) == <<"deriv", s, "anat", 0>>
LogFilename(s) == <<"log", s, "none", 0>>

NoResult == [raw |-> <<>>, deriv |-> <<>>, logs |-> <<>>, returned |-> FALSE]

\* Candidate images of the sessions processed so far (the dataset is bounded).
RECURSIVE SumRaw(_, _)
SumRaw(res, n) == IF n = 0 THEN 0 ELSE Len(res[n].raw) + SumRaw(res, n - 1)
FilesSeen(res) == SumRaw(res, Len(res))

\* ------------------------------------------------------- Unit Processor
OrientFiles(s, ori, n) == [k \in 1..n |-> RawPath(s, ori, k)]

\* Faulty variant: the coronal images are taken before the sagittal ones.
AllT2_CorFirst(s, nA, nS, nC) ==
    OrientFiles(s, "axi", nA) \o OrientFiles(s, "cor", nC) \o OrientFiles(s, "sag", nS)

\* all_t2 = [*axi, *sag, *cor]; raw_fnames = [x.path for x in all_t2]
AllT2(s, nA, nS, nC) ==
    OrientFiles(s, "axi", nA) \o OrientFiles(s, "sag", nS) \o OrientFiles(s, "cor", nC)

\* What the collaborators of one loop iteration do, in call order:
\*   optRaise   TestOptions(...).parse() raises (TypeError: __init__ declares no
\*              `image` parameter; FileNotFoundError / ValueError of
\*              get_gambas_basename; whatever BaseOptions.parse raises)
\*   regRaise   Registration raises
\*   regNone    Registration returns None
\*   modelRaise create_model / model.setup raises
\*   infRaise   inference raises
\*   infFalsy   inference returns a falsy fname
\*   ok         inference returns the output path
CollabOutcomes ==
    {"optRaise", "regRaise", "regNone", "modelRaise", "infRaise", "infFalsy", "ok"}

Raises(o) == o \in {"optRaise", "regRaise", "modelRaise", "infRaise"}

\* Whether the iteration leaves the try block by `continue` (registration
\* returned None, or the except clause), skipping the rest of the loop body.
Continues(o) == Raises(o) \/ o = "regNone"

CandidateTerminal(o) ==
    CASE Raises(o) -> "Errored"
      [] o = "regNone" -> "RegistrationFailed"
      [] o = "infFalsy" -> "InferenceFailed"
      [] OTHER -> "Completed"

\* The calls one iteration makes on its candidate, in the order of the try
\* block: Registration, then create_model / setup, then inference.  Nothing is
\* called again; a raise or a None from Registration ends the iteration there.
NoCalls == [reg |-> 0, model |-> 0, inf |-> 0]

\* Faulty variant: a candidate whose registration returned None is not skipped
\* and goes on to model construction and inference.
CallsOf_NoSkip(o) ==
    [reg |-> IF o = "optRaise" THEN 0 ELSE 1,
     model |-> IF o \in {"optRaise", "regRaise"} THEN 0 ELSE 1,
     inf |-> IF o \in {"optRaise", "regRaise", "modelRaise"} THEN 0 ELSE 1]

CallsOf(o) ==
    [reg |-> IF o = "optRaise" THEN 0 ELSE 1,
     model |-> IF o \in {"optRaise", "regRaise", "regNone"} THEN 0 ELSE 1,
     inf |-> IF o \in {"optRaise", "regRaise", "regNone", "modelRaise"} THEN 0 ELSE 1]

\* if fname: deriv_fnames.append(fname)   (inside the try block)
AppendInTry(d, o, fname) == IF o = "ok" THEN Append(d, fname) ELSE d

\* if fname: deriv_fnames.append(fname)   (after the try block, in the loop body)
AppendAfterTry(d, o, fname) == IF o = "ok" THEN Append(d, fname) ELSE d

\* deriv_fnames after one iteration of `for f in raw_fnames`
DerivAfter(d, o, fname) ==
    IF Continues(o) THEN d ELSE AppendAfterTry(AppendInTry(d, o, fname), o, fname)

\* Faulty variant: the iteration's exception is not caught by the inner except and
\* reaches the outer one, which ends the loop.
AfterCandidate_Abort(o, i, n) ==
    IF Raises(o) THEN "finally" ELSE IF i < n THEN "files" ELSE "finally"

\* Where control goes after the iteration for candidate i of n: an exception
\* of the iteration is caught by the inner except, so the loop goes on.
AfterCandidate(o, i, n) == IF i < n THEN "files" ELSE "finally"

\* main: fw_process_subject(layout, sub, ses, which_model, config) is entered;
\* the handler is attached to the root logger and logs = [].
UP_Enter ==
    /\ mpc = "call"
    /\ mpc' = "unit"
    /\ upc' = "try"
    /\ invoked' = Append(invoked, cur)
    /\ handlers' = handlers \cup {cur}
    /\ logs' = <<>>
    /\ bound' = FALSE
    /\ raw_fnames' = <<>>
    /\ deriv_fnames' = <<>>
    /\ fi' = 1
    /\ cstate' = <<>>
    /\ calls' = <<>>
    /\ UNCHANGED <<npairs, cur, results, handled, removed, rmTried, analyses,
                   logfiles, escaped, raisedBy>>
    /\ UNCHANGED notRun

\* try: my_files = parse_input_files(...); deriv_fnames = []; raw_fnames = [...]
\* parse_input_files raising is caught by the outer except, which goes to finally
\* with raw_fnames and deriv_fnames unassigned.
UP_Parse ==
    /\ upc = "try"
    /\ \E parseRaises \in BOOLEAN, nA \in 0..MaxFiles, nS \in 0..MaxFiles,
          nC \in 0..MaxFiles :
         IF parseRaises
         THEN /\ upc' = "finally"
              /\ UNCHANGED <<bound, raw_fnames, deriv_fnames, cstate, calls>>
         ELSE LET files == AllT2(cur, nA, nS, nC) IN
              /\ FilesSeen(results) + nA + nS + nC <= MaxFiles
              /\ bound' = TRUE
              /\ raw_fnames' = files
              /\ deriv_fnames' = <<>>
              /\ cstate' = [i \in 1..Len(files) |-> "Discovered"]
              /\ calls' = [i \in 1..Len(files) |-> NoCalls]
              /\ upc' = IF Len(files) = 0 THEN "finally" ELSE "files"
    /\ UNCHANGED <<npairs, mpc, cur, invoked, results, handled, removed, rmTried,
                   analyses, handlers, logs, fi, logfiles, escaped, raisedBy>>
    /\ UNCHANGED notRun

\* One iteration of `for f in raw_fnames`.
UP_File ==
    /\ upc = "files"
    /\ \E o \in CollabOutcomes :
         /\ cstate' = [cstate EXCEPT ![fi] = CandidateTerminal(o)]
         /\ calls' = [calls EXCEPT ![fi] = CallsOf(o)]
         /\ deriv_fnames' = DerivAfter(deriv_fnames, o, ResultSr(cur))
         /\ upc' = AfterCandidate(o, fi, Len(raw_fnames))
    /\ fi' = fi + 1
    /\ UNCHANGED <<npairs, mpc, cur, invoked, results, handled, removed, rmTried,
                   analyses, handlers, bound, raw_fnames, logs, logfiles, escaped,
                   raisedBy>>
    /\ UNCHANGED notRun

\* finally: write the log file, removeHandler, logs.append(log_filename).
\* open()/write() failing raises out of the finally block before removeHandler.
UP_Finally ==
    /\ upc = "finally"
    /\ \E writeOk \in BOOLEAN :
         IF writeOk
         THEN /\ logfiles' = logfiles \cup {LogFilename(cur)}
              /\ handlers' = handlers \ {cur}
              /\ logs' = Append(logs, LogFilename(cur))
              /\ upc' = "return"
              /\ UNCHANGED <<mpc, escaped, raisedBy>>
         ELSE /\ upc' = "idle"
              /\ mpc' = "raised"
              /\ raisedBy' = "logwrite"
              /\ escaped' = escaped \cup {cur}
              /\ UNCHANGED <<logfiles, handlers, logs>>
    /\ UNCHANGED <<npairs, cur, invoked, results, handled, removed, rmTried,
                   analyses, bound, raw_fnames, deriv_fnames, fi, cstate, calls>>
    /\ UNCHANGED notRun

\* return raw_fnames, deriv_fnames, logs
\* Reading an unassigned local raises UnboundLocalError, which leaves
\* fw_process_subject and main (main has no handler around the call).
\* The locals of the invocation end with it.
UP_Return ==
    /\ upc = "return"
    /\ upc' = "idle"
    /\ bound' = FALSE
    /\ raw_fnames' = <<>>
    /\ deriv_fnames' = <<>>
    /\ logs' = <<>>
    /\ fi' = 1
    /\ cstate' = <<>>
    /\ calls' = <<>>
    /\ IF bound
       THEN /\ results' = [results EXCEPT ![cur] =
                              [raw |-> raw_fnames, deriv |-> deriv_fnames,
                               logs |-> logs, returned |-> TRUE]]
            /\ mpc' = "handle"
            /\ UNCHANGED <<escaped, raisedBy>>
       ELSE /\ escaped' = escaped \cup {cur}
            /\ mpc' = "raised"
            /\ raisedBy' = "UnboundLocalError"
            /\ UNCHANGED results
    /\ UNCHANGED <<npairs, cur, invoked, handled, removed, rmTried, analyses,
                   handlers, logfiles>>
    /\ UNCHANGED notRun

\* ------------------------------------------------------- Run Supervisor
\* Faulty variant: the empty-input check is folded into the missing-output check, so a
\* session without candidates falls through to the publication.
MainBranch_NoSkip(raw, deriv) ==
    IF raw # <<>> /\ deriv = <<>> THEN "cleanup" ELSE "publish"

\* Faulty variant: a session without derivative is published like the others
\* instead of being cleaned up.
MainBranch_PublishAll(raw, deriv) == IF raw = <<>> THEN "skip" ELSE "publish"

\* if not raw_fnames: continue / if not deriv_fnames: delete, continue / else publish
MainBranch(raw, deriv) ==
    IF raw = <<>> THEN "skip" ELSE IF deriv = <<>> THEN "cleanup" ELSE "publish"

\* Faulty variant: the exception of os.remove is not caught per file, so the
\* deletion loop ends at the first path that cannot be deleted.
RECURSIVE RemoveAttempts_StopAtFailure(_, _)
RemoveAttempts_StopAtFailure(raw, failing) ==
    IF raw = <<>> THEN <<>>
    ELSE IF Head(raw) \in failing THEN <<Head(raw)>>
    ELSE <<Head(raw)>> \o RemoveAttempts_StopAtFailure(Tail(raw), failing)

\* for file_path in raw_fnames: try: os.remove(file_path) except Exception: ...
\* The paths os.remove is called for, when it raises for those in failing.
RemoveAttempts(raw, failing) == raw

\* out_files = []; extend(raw_fnames); extend(deriv_fnames); extend(logs)
OutFiles(raw, deriv, lg) == raw \o deriv \o lg

\* "status": "failed" if not deriv_fnames else "success"
AnalysisStatus(deriv) == IF deriv = <<>> THEN "failed" ELSE "success"

\* Where a publication stops: client.get / add_analysis raises ("add"),
\* update_info raises ("update"), or k uploads succeed and, if k is not the
\* number of files, the next upload raises.
PublishOutcomes(out) ==
    {<<"add", 0>>, <<"update", 0>>} \cup {<<"upload", k>> : k \in 0..Len(out)}

\* The analysis record a publication leaves on the platform.
Published(s, deriv, out, p) ==
    CASE p[1] = "add" -> <<>>
      [] p[1] = "update" -> <<[ses |-> s, status |-> "unset", files |-> <<>>]>>
      [] OTHER -> <<[ses |-> s, status |-> AnalysisStatus(deriv),
                     files |-> SubSeq(out, 1, p[2])]>>

PublishCompletes(out, p) == p = <<"upload", Len(out)>>

\* for sub in subses: for ses in subses[sub]: the next pair, or the end of main
AfterPair(c, n) == IF c < n THEN "call" ELSE "done"

\* The body of main's loop after fw_process_subject returned.
Main_Handle ==
    /\ mpc = "handle"
    /\ LET r == results[cur]
           br == MainBranch(r.raw, r.deriv)
           out == OutFiles(r.raw, r.deriv, r.logs)
           goOn == /\ handled' = handled \cup {cur}
                   /\ UNCHANGED raisedBy
                   /\ mpc' = AfterPair(cur, npairs)
                   /\ cur' = IF cur < npairs THEN cur + 1 ELSE cur
       IN  IF br = "skip"
           THEN /\ goOn
                /\ UNCHANGED <<removed, rmTried, analyses>>
           ELSE IF br = "cleanup"
           THEN /\ \E failing \in SUBSET Range(r.raw) :
                      /\ rmTried' = rmTried \o RemoveAttempts(r.raw, failing)
                      /\ removed' = removed \cup
                                      (Range(RemoveAttempts(r.raw, failing)) \ failing)
                /\ goOn
                /\ UNCHANGED analyses
           ELSE /\ \E p \in PublishOutcomes(out) :
                      /\ analyses' = analyses \o Published(cur, r.deriv, out, p)
                      /\ IF PublishCompletes(out, p)
                         THEN goOn
                         ELSE /\ mpc' = "raised"
                              /\ raisedBy' = "publish"
                              /\ UNCHANGED <<handled, cur>>
                /\ UNCHANGED <<removed, rmTried>>
    /\ UNCHANGED <<npairs, invoked, results, upc, handlers, bound, raw_fnames,
                   deriv_fnames, logs, fi, cstate, calls, logfiles, escaped>>
    /\ UNCHANGED notRun

ImportOff ==
    /\ ipc = "off"
    /\ sesLabels = <<>>
    /\ si = 1
    /\ sessions_out = <<>>
    /\ assigned = <<>>
    /\ disk = {}
    /\ fetched = <<>>

\* The state when main reaches its loop with the subses mapping built.
Init ==
    /\ npairs \in 0..MaxPairs
    /\ mpc = IF npairs = 0 THEN "done" ELSE "call"
    /\ cur = 1
    /\ invoked = <<>>
    /\ results = [s \in 1..npairs |-> NoResult]
    /\ handled = {}
    /\ removed = {}
    /\ rmTried = <<>>
    /\ analyses = <<>>
    /\ upc = "idle"
    /\ handlers = {}
    /\ bound = FALSE
    /\ raw_fnames = <<>>
    /\ deriv_fnames = <<>>
    /\ logs = <<>>
    /\ fi = 1
    /\ cstate = <<>>
    /\ calls = <<>>
    /\ logfiles = {}
    /\ escaped = {}
    /\ raisedBy = "none"
    /\ ImportOff
    /\ ExtraOff

Next ==
    \/ UP_Enter
    \/ UP_Parse
    \/ UP_File
    \/ UP_Finally
    \/ UP_Return
    \/ Main_Handle

Spec == Init /\ [][Next]_vars

\* ------------------------------------------------------- Label Resolver
\* A label is a sequence of one-character strings.
RemoveChar(s, c) == SelectSeq(s, LAMBDA x : x # c)

\* str.replace(c, r) for a one-character c and a one-character r
ReplaceChar(s, c, r) == [i \in 1..Len(s) |-> IF s[i] = c THEN r ELSE s[i]]

RECURSIVE SkipWs(_)
SkipWs(s) == IF s = <<>> \/ Head(s) # " " THEN s ELSE SkipWs(Tail(s))

RECURSIVE TakeTok(_)
TakeTok(s) == IF s = <<>> \/ Head(s) = " " THEN <<>> ELSE <<Head(s)>> \o TakeTok(Tail(s))

\* str.split(): the whitespace-delimited tokens, none of them empty
RECURSIVE Split(_)
Split(s) ==
    LET t == SkipWs(s) IN
    IF t = <<>> THEN <<>>
    ELSE LET tok == TakeTok(t) IN <<tok>> \o Split(SubSeq(t, Len(tok) + 1, Len(t)))

\* The result of an operation that raised IndexError (no label is this value).
IndexError == <<"IndexError">>

\* Faulty variant: the session rule strips spaces like the subject rule instead of
\* keeping the first token only.
make_session_label_NoSplit(label) ==
    RemoveChar(RemoveChar(RemoveChar(label, " "), "-"), "_")

\* ses.label.split()[0].replace("-", '').replace("_", "")
make_session_label(label) ==
    IF Split(label) = <<>> THEN IndexError
    ELSE RemoveChar(RemoveChar(Split(label)[1], "-"), "_")

\* sub.label.replace("-", '').replace(" ", '').replace("_", "")
make_subject_label(label) == RemoveChar(RemoveChar(RemoveChar(label, "-"), " "), "_")

\* proj.replace("-", '_').replace(" ", '')
make_project_label(label) == RemoveChar(ReplaceChar(label, "-", "_"), " ")

\* string.ascii_lowercase
alc == <<"a", "b", "c", "d", "e", "f", "g", "h", "i", "j", "k", "l", "m",
         "n", "o", "p", "q", "r", "s", "t", "u", "v", "w", "x", "y", "z">>

\* ------------------------------------------------- Hierarchical Importer
Keys(d) == {d[i].key : i \in 1..Len(d)}

\* d[k] = v on a dict kept as its items in insertion order
DictSet(d, k, v) ==
    IF k \in Keys(d)
    THEN [i \in 1..Len(d) |-> IF d[i].key = k THEN [key |-> k, value |-> v] ELSE d[i]]
    ELSE Append(d, [key |-> k, value |-> v])

\* while ses_label in sessions_out: ses_label = ses_label0 + alc[i]; i += 1
\* (i counts from 0; alc[i] raises IndexError at i = 26)
RECURSIVE ProbeFrom(_, _, _, _)
ProbeFrom(label0, label, i, keys) ==
    IF label \notin keys THEN label
    ELSE IF i >= Len(alc) THEN IndexError
    ELSE ProbeFrom(label0, Append(label0, alc[i + 1]), i + 1, keys)

\* Faulty variant: one probe only (`if` in place of `while`).
Probe_Once(label0, keys) == IF label0 \in keys THEN Append(label0, alc[1]) ELSE label0

\* Faulty variant: when every suffix is taken the unsuffixed label is used again.
Probe_Reuse(label0, keys) ==
    IF ProbeFrom(label0, label0, 0, keys) = IndexError THEN label0
    ELSE ProbeFrom(label0, label0, 0, keys)

\* ses_label = ses_label0; i = 0; while ...
Probe(label0, keys) == ProbeFrom(label0, label0, 0, keys)

\* os.path.join(sub_dir, ses_label)
SesDir(ses_label) == <<"sub_dir", ses_label>>

\* The file of a session that passes download_file's filter; every session
\* of the subject holds one acquisition with one such file, of this name.
FileName == "T2_axi.nii.gz"

\* fpath = os.path.join(download_dir, file.name)
TargetPath(dir) == <<dir, FileName>>

\* ------------------------------------------------------------ the inputs
SesChars == {"V", "a", " ", "-", "_"}

LabelsUpTo(n) == UNION {[1..k -> SesChars] : k \in 0..n}

RECURSIVE SumLen(_)
SumLen(ls) == IF ls = <<>> THEN 0 ELSE Len(Head(ls)) + SumLen(Tail(ls))

\* Scenario C: two sessions labelled "Visit 1" and "Visit-1".
Visit_1 == <<"V", "i", "s", "i", "t", " ", "1">>
Visit1 == <<"V", "i", "s", "i", "t", "-", "1">>
ScenarioC == <<Visit_1, Visit1>>

\* The raw labels the next session of the subject may carry: any label within
\* the character budget, or the next label of scenario C.
NextLabels(seen) ==
    (IF SumLen(seen) <= MaxLabelChars
     THEN LabelsUpTo(MaxLabelChars - SumLen(seen)) ELSE {})
    \cup (IF Len(seen) < Len(ScenarioC) /\ seen = SubSeq(ScenarioC, 1, Len(seen))
          THEN {ScenarioC[Len(seen) + 1]} ELSE {})

\* One iteration of `for ses in sub_container.sessions.iter()`:
\* download_session (label, folder, id, the files), the duplicate check, the store.
SessionStep(raw) ==
    LET ses_label0 == make_session_label(raw)
        ses_dir == SesDir(ses_label0)
        ses_label == Probe(ses_label0, Keys(sessions_out))
    IN  /\ sesLabels' = Append(sesLabels, raw)
        /\ IF ses_label0 = IndexError
           THEN /\ ipc' = "raised"
                /\ UNCHANGED <<si, sessions_out, assigned, disk, fetched>>
           ELSE /\ disk' = disk \cup {TargetPath(ses_dir)}
                /\ fetched' = IF TargetPath(ses_dir) \in disk THEN fetched
                              ELSE Append(fetched, si)
                /\ IF ses_label = IndexError
                   THEN /\ ipc' = "raised"
                        /\ UNCHANGED <<si, sessions_out, assigned>>
                   ELSE /\ sessions_out' = DictSet(sessions_out, ses_label,
                                                   [folder |-> ses_dir, id |-> si])
                        /\ assigned' = Append(assigned, ses_label)
                        /\ si' = si + 1
                        /\ UNCHANGED ipc

DS_Session ==
    /\ ipc = "sessions"
    /\ Len(sesLabels) < MaxSes
    /\ \E raw \in NextLabels(sesLabels) : SessionStep(raw)
    /\ UNCHANGED notImp

\* The session iterator is exhausted: return sub_label, sessions_out
DS_Return ==
    /\ ipc = "sessions"
    /\ ipc' = "returned"
    /\ UNCHANGED <<sesLabels, si, sessions_out, assigned, disk, fetched>>
    /\ UNCHANGED notImp

RunOff ==
    /\ npairs = 0
    /\ mpc = "off"
    /\ cur = 1
    /\ invoked = <<>>
    /\ results = <<>>
    /\ handled = {}
    /\ removed = {}
    /\ rmTried = <<>>
    /\ analyses = <<>>
    /\ upc = "idle"
    /\ handlers = {}
    /\ bound = FALSE
    /\ raw_fnames = <<>>
    /\ deriv_fnames = <<>>
    /\ logs = <<>>
    /\ fi = 1
    /\ cstate = <<>>
    /\ calls = <<>>
    /\ logfiles = {}
    /\ escaped = {}
    /\ raisedBy = "none"

\* download_subject has built sub_dir and sessions_out = {} and enters its loop.
InitImport ==
    /\ RunOff
    /\ ExtraOff
    /\ ipc = "sessions"
    /\ sesLabels = <<>>
    /\ si = 1
    /\ sessions_out = <<>>
    /\ assigned = <<>>
    /\ disk = {}
    /\ fetched = <<>>

NextImport ==
    \/ DS_Session
    \/ DS_Return

SpecImport == InitImport /\ [][NextImport]_vars

\* ------------------------------- a subject whose sessions share one label
\* The label the sessions share, and the labels the other sessions carry: one
\* that sanitizes to the shared label, one that is the shared label with a
\* suffix letter, one that has nothing to do with it.
SharedLabel == <<"V">>
OtherLabels == {<<"V", "-">>, <<"V", "b">>, <<"a">>}

SharedNext(seen) ==
    {SharedLabel} \cup
    (IF Cardinality({k \in 1..Len(seen) : seen[k] # SharedLabel}) < MaxOther
     THEN OtherLabels ELSE {})

\* The loop body of download_subject, for such a subject.
DX_Session ==
    /\ ipc = "sessions"
    /\ Len(sesLabels) < MaxSame + MaxOther
    /\ \E raw \in SharedNext(sesLabels) : SessionStep(raw)
    /\ UNCHANGED notImp

NextExhaust ==
    \/ DX_Session
    \/ DS_Return

SpecExhaust == InitImport /\ [][NextExhaust]_vars

\* ------------------------------------------------ project-rooted import
\* os.path.join(dir, name): a path is the sequence of its components.
Join(dir, name) == Append(dir, name)

\* source_data_dir = os.path.join(work_dir, 'sourcedata')
SourceDataDir == <<"sourcedata">>

\* download_project: my_dir = os.path.join(my_dir, make_project_label(project.label))
ProjDir(label) == Join(SourceDataDir, make_project_label(label))

\* download_subject's loop from its k-th session on, for the subject numbered
\* subNo with folder sub_dir.  acc is [out, paths, raised]: sessions_out so
\* far, the target paths written, whether a session's label raised.  A
\* session's id is <<subNo, k>>.
RECURSIVE DownloadSessions(_, _, _, _, _)
DownloadSessions(sub_dir, subNo, labels, k, acc) ==
    IF k > Len(labels) THEN acc
    ELSE LET ses_label0 == make_session_label(labels[k])
             ses_dir == Join(sub_dir, ses_label0)
             ses_label == Probe(ses_label0, Keys(acc.out))
         IN  IF ses_label0 = IndexError THEN [acc EXCEPT !.raised = TRUE]
             ELSE IF ses_label = IndexError
             THEN [acc EXCEPT !.raised = TRUE,
                              !.paths = acc.paths \cup {Join(ses_dir, FileName)}]
             ELSE DownloadSessions(sub_dir, subNo, labels, k + 1,
                      [out |-> DictSet(acc.out, ses_label,
                                       [folder |-> ses_dir, id |-> <<subNo, k>>]),
                       paths |-> acc.paths \cup {Join(ses_dir, FileName)},
                       raised |-> FALSE])

\* Raw labels of the project, its subjects and their sessions.
ProjLabels == {<<"P">>, <<"P", "-", "1">>}
ProjSubLabels == {<<"a">>, <<"a", "-">>, <<"V">>}
ProjSesLabels == {<<"V">>, <<"V", "-">>, <<>>}

SeqsUpTo(S, n) == UNION {[1..k -> S] : k \in 0..n}

\* Sessions of the subjects iterated so far.
RECURSIVE SesDrawn(_)
SesDrawn(subs) == IF subs = <<>> THEN 0 ELSE Len(Head(subs).sessions) + SesDrawn(Tail(subs))

\* download_project: one iteration of `for sub in project.subjects.iter()`.
\* The subjects of a project carry distinct raw labels.
\* An exception of download_subject leaves download_project and download_dataset.
DP_Subject ==
    /\ ppc = "subjects"
    /\ Len(subRaw) < MaxSubs
    /\ \E raw \in ProjSubLabels \ {subRaw[i].label : i \in 1..Len(subRaw)},
          labels \in SeqsUpTo(ProjSesLabels, MaxProjSes - SesDrawn(subRaw)) :
         LET subNo == Len(subRaw) + 1
             sub_lab == make_subject_label(raw)
             sub_dir == Join(ProjDir(projLabel), sub_lab)
             r == DownloadSessions(sub_dir, subNo, labels, 1,
                                   [out |-> <<>>, paths |-> {}, raised |-> FALSE])
         IN  /\ subRaw' = Append(subRaw, [label |-> raw, sessions |-> labels])
             /\ pdisk' = pdisk \cup r.paths
             /\ IF r.raised
                THEN /\ ppc' = "raised"
                     /\ pErr' = "IndexError"
                     /\ UNCHANGED subjects_out
                ELSE /\ subjects_out' = DictSet(subjects_out, sub_lab, r.out)
                     /\ UNCHANGED <<ppc, pErr>>
    /\ UNCHANGED <<projLabel, psub, output>>
    /\ UNCHANGED notPrj

\* download_project returns proj_name, subjects_out; download_dataset sets
\* output = {} and enters its loop over subjects.keys().
DP_Return ==
    /\ ppc = "subjects"
    /\ ppc' = "import"
    /\ psub' = 1
    /\ output' = <<>>
    /\ UNCHANGED <<pErr, projLabel, subRaw, subjects_out, pdisk>>
    /\ UNCHANGED notPrj

\* The first n items of sessions as output[sub] holds them: ses -> id.
Imported(sessions, n) ==
    [i \in 1..n |-> [key |-> sessions[i].key, value |-> sessions[i].value.id]]

\* Where download_dataset is after a subject of which the first nOk of n
\* sessions were imported: import_dicom_folder raising for session nOk + 1 is
\* not caught and leaves download_dataset.
AfterImport(nOk, n) == IF nOk < n THEN "raised" ELSE "import"

\* download_dataset: one iteration of `for sub in subjects.keys()`:
\* output[sub] = {}, then import_dicom_folder and output[sub][ses] = id for
\* each session.
DD_Subject ==
    /\ ppc = "import"
    /\ psub <= Len(subjects_out)
    /\ LET sub == subjects_out[psub].key
           sessions == subjects_out[psub].value
       IN  \E nOk \in 0..Len(sessions) :
             /\ output' = DictSet(output, sub, Imported(sessions, nOk))
             /\ ppc' = AfterImport(nOk, Len(sessions))
             /\ pErr' = IF nOk < Len(sessions) THEN "import_dicom_folder" ELSE pErr
             /\ psub' = IF nOk < Len(sessions) THEN psub ELSE psub + 1
    /\ UNCHANGED <<projLabel, subRaw, subjects_out, pdisk>>
    /\ UNCHANGED notPrj

\* return output
DD_Return ==
    /\ ppc = "import"
    /\ psub > Len(subjects_out)
    /\ ppc' = "returned"
    /\ UNCHANGED <<pErr, projLabel, subRaw, subjects_out, pdisk, psub, output>>
    /\ UNCHANGED notPrj

\* download_dataset has taken the project branch and calls download_project.
InitProject ==
    /\ RunOff
    /\ ImportOff
    /\ LabelOff
    /\ FilesOff
    /\ RootsOff
    /\ ppc = "subjects"
    /\ pErr = "none"
    /\ projLabel \in ProjLabels
    /\ subRaw = <<>>
    /\ subjects_out = <<>>
    /\ pdisk = {}
    /\ psub = 1
    /\ output = <<>>

NextProject ==
    \/ DP_Subject
    \/ DP_Return
    \/ DD_Subject
    \/ DD_Return

SpecProject == InitProject /\ [][NextProject]_vars

\* ------------------------------------- one session, by kind of root
\* What download_dataset leaves for the session of a tree of one project, one
\* subject and one session: the session's folder, the target paths written,
\* and the mapping returned ("raised" when an exception leaves it).
RootResult(sub_lab, r, importOk) ==
    IF r.raised
    THEN [folder |-> <<>>, paths |-> r.paths, ret |-> "raised"]
    ELSE [folder |-> r.out[1].value.folder, paths |-> r.paths,
          ret |-> IF importOk
                  THEN <<[key |-> sub_lab, value |-> Imported(r.out, 1)]>>
                  ELSE "raised"]

NoSessions == [out |-> <<>>, paths |-> {}, raised |-> FALSE]

\* container_type == 'project': download_project joins
\* make_project_label(project.label) to source_data_dir, download_subject the
\* subject label, download_session the session label.
DR_Project ==
    /\ rpc = "roots"
    /\ rootRes["project"] = NoRoot
    /\ \E importOk \in BOOLEAN :
         LET sub_lab == make_subject_label(rSub)
             sub_dir == Join(ProjDir(rProj), sub_lab)
             r == DownloadSessions(sub_dir, 1, <<rSes>>, 1, NoSessions)
         IN  rootRes' = [rootRes EXCEPT
                            !["project"] = RootResult(sub_lab, r, importOk)]
    /\ UNCHANGED <<rpc, rProj, rSub, rSes>>
    /\ UNCHANGED notRoot

\* container_type == 'subject': proj_label is the parent project's label as
\* it is; source_data_dir = os.path.join(source_data_dir, proj_label).
DR_Subject ==
    /\ rpc = "roots"
    /\ rootRes["subject"] = NoRoot
    /\ \E importOk \in BOOLEAN :
         LET proj_label == rProj
             source_data_dir == Join(SourceDataDir, proj_label)
             sub_label == make_subject_label(rSub)
             sub_dir == Join(source_data_dir, sub_label)
             r == DownloadSessions(sub_dir, 1, <<rSes>>, 1, NoSessions)
         IN  rootRes' = [rootRes EXCEPT
                            !["subject"] = RootResult(sub_label, r, importOk)]
    /\ UNCHANGED <<rpc, rProj, rSub, rSes>>
    /\ UNCHANGED notRoot

\* container_type == 'session': proj_label is the parent project's label as
\* it is; source_data_dir = os.path.join(source_data_dir, proj_label, sub_label);
\* download_session joins the session label.
DR_Session ==
    /\ rpc = "roots"
    /\ rootRes["session"] = NoRoot
    /\ \E importOk \in BOOLEAN :
         LET proj_label == rProj
             sub_label == make_subject_label(rSub)
             source_data_dir == Join(Join(SourceDataDir, proj_label), sub_label)
             ses_label == make_session_label(rSes)
             ses_dir == Join(source_data_dir, ses_label)
         IN  rootRes' = [rootRes EXCEPT !["session"] =
                 IF ses_label = IndexError
                 THEN [folder |-> <<>>, paths |-> {}, ret |-> "raised"]
                 ELSE [folder |-> ses_dir, paths |-> {Join(ses_dir, FileName)},
                       ret |-> IF importOk
                               THEN <<[key |-> sub_label,
                                       value |-> <<[key |-> ses_label,
                                                    value |-> <<1, 1>>]>>]>>
                               ELSE "raised"]]
    /\ UNCHANGED <<rpc, rProj, rSub, rSes>>
    /\ UNCHANGED notRoot

\* Characters a project label is made of: one make_project_label keeps, the
\* dash it replaces and the space it removes.
ProjChars == {"P", "-", " "}

\* A project with a subject with a session, of any labels; the gear is run
\* once on each of the three containers, each time in a fresh work_dir.
InitRoots ==
    /\ RunOff
    /\ ImportOff
    /\ LabelOff
    /\ ProjectOff
    /\ FilesOff
    /\ rpc = "roots"
    /\ rProj \in UNION {[1..k -> ProjChars] : k \in 1..MaxProjChars}
    /\ rSub \in ProjSubLabels
    /\ rSes \in ProjSesLabels
    /\ rootRes = [k \in RootKinds |-> NoRoot]

NextRoots ==
    \/ DR_Project
    \/ DR_Subject
    \/ DR_Session

SpecRoots == InitRoots /\ [][NextRoots]_vars

\* --------------------------------------------- the files of one session
\* A file name is a sequence of one-character strings, like a label.
UpperCase == <<"A", "B", "C", "D", "E", "F", "G", "H", "I", "J", "K", "L", "M",
               "N", "O", "P", "Q", "R", "S", "T", "U", "V", "W", "X", "Y", "Z">>

LowerChar(c) ==
    IF \E i \in 1..Len(UpperCase) : UpperCase[i] = c
    THEN alc[CHOOSE i \in 1..Len(UpperCase) : UpperCase[i] = c]
    ELSE c

\* str.lower()
Lower(name) == [i \in 1..Len(name) |-> LowerChar(name[i])]

\* sub in name
Contains(name, sub) ==
    \E i \in 0..(Len(name) - Len(sub)) : SubSeq(name, i + 1, i + Len(sub)) = sub

AllowedTypes == {"source code", "nifti"}
ExcludedMarkers ==
    {<<"m", "a", "p", "p", "i", "n", "g">>, <<"a", "l", "i", "g", "n">>,
     <<"b", "r", "a", "i", "n">>}

\* Faulty variant: the exclusion list is not consulted.
DoDownload_NoExclusion(file) ==
    IF file.type \in AllowedTypes
    THEN Contains(file.name, <<"T", "2">>)
           /\ (Contains(Lower(file.name), <<"a", "x", "i">>)
                 \/ Contains(file.name, <<"A", "X", "I">>))
    ELSE FALSE

\* download_file: the value of do_download
DoDownload(file) ==
    IF file.type \in AllowedTypes
    THEN IF Contains(file.name, <<"T", "2">>)
              /\ (Contains(Lower(file.name), <<"a", "x", "i">>)
                    \/ Contains(file.name, <<"A", "X", "I">>))
         THEN ~(\E excluded \in ExcludedMarkers : Contains(Lower(file.name), excluded))
         ELSE FALSE
    ELSE FALSE

\* Faulty variant: the target path is never found present.
PathExists_Never(fpath, paths) == FALSE

\* os.path.exists(fpath)
PathExists(fpath, paths) == fpath \in paths

\* What the storage calls of one download_file do:
\*   mkdirRaise    os.makedirs raises
\*   ok            file.download writes the file
\*   raiseNoFile   file.download raises and leaves nothing at the target path
\*   raisePartial  file.download raises and leaves a file at the target path
FileOutcomes == {"mkdirRaise", "ok", "raiseNoFile", "raisePartial"}

\* Faulty variant: the exception of file.download is not caught and leaves
\* download_file and download_session.
AfterDownload_Uncaught(o) == IF o = "ok" THEN "files" ELSE "raised"

\* Where download_session is after file.download was called: an exception of
\* the call is caught in download_file, which prints and returns.
AfterDownload(o) == "files"

\* The session whose files are followed: label, folder and id.
FSesLabel == make_session_label(<<"V">>)
FSesDir == SesDir(FSesLabel)
FSesId == 1

\* download_session: one call of download_file(file, ses_dir, dry_run) in the
\* loops over the acquisitions and their files.
DF_File ==
    /\ fpc = "files"
    /\ fx <= Len(listing)
    /\ \E o \in FileOutcomes :
         LET file == listing[fx]
             fpath == Join(FSesDir, file.name)
             called == IF dry_run THEN FALSE ELSE ~PathExists(fpath, fdisk)
         IN  IF ~DoDownload(file)
             THEN /\ fx' = fx + 1
                  /\ UNCHANGED <<fpc, fmk, fdisk, dlCalls>>
             ELSE IF o = "mkdirRaise"
             THEN /\ fpc' = "raised"
                  /\ fmk' = fmk \cup {<<frun, fx>>}
                  /\ UNCHANGED <<fx, fdisk, dlCalls>>
             ELSE /\ fmk' = fmk \cup {<<frun, fx>>}
                  /\ fpc' = IF called THEN AfterDownload(o) ELSE "files"
                  /\ fx' = IF fpc' = "raised" THEN fx ELSE fx + 1
                  /\ dlCalls' = IF called
                                THEN Append(dlCalls, [run |-> frun, file |-> fx,
                                                      name |-> file.name,
                                                      existed |-> fpath \in fdisk,
                                                      outcome |-> o])
                                ELSE dlCalls
                  /\ fdisk' = IF called /\ o \in {"ok", "raisePartial"}
                              THEN fdisk \cup {fpath} ELSE fdisk
    /\ UNCHANGED <<listing, dry_run, frun, fret>>
    /\ UNCHANGED notFil

\* return ses_label, ses_dir, ses_id
DF_Return ==
    /\ fpc = "files"
    /\ fx > Len(listing)
    /\ fpc' = "returned"
    /\ fret' = <<FSesLabel, FSesDir, FSesId>>
    /\ UNCHANGED <<listing, dry_run, frun, fx, fmk, fdisk, dlCalls>>
    /\ UNCHANGED notFil

\* The importer is run again on the same session against the directory the
\* run before left.
DF_Rerun ==
    /\ fpc = "returned"
    /\ frun < MaxRuns
    /\ frun' = frun + 1
    /\ fpc' = "files"
    /\ fx' = 1
    /\ fret' = <<>>
    /\ UNCHANGED <<listing, dry_run, fmk, fdisk, dlCalls>>
    /\ UNCHANGED notFil

\* Files of the session: two names that pass the filter, one of them also
\* under a type that does not.
NameT2axi == <<"T", "2", "a", "x", "i">>
NameT2AXI == <<"T", "2", "A", "X", "I">>
SessionFiles ==
    {[name |-> NameT2axi, type |-> "nifti"],
     [name |-> NameT2AXI, type |-> "source code"],
     [name |-> NameT2axi, type |-> "dicom"]}

\* download_dataset calls download_session with dry_run = False on an empty
\* source directory.
InitSession ==
    /\ RunOff
    /\ ImportOff
    /\ LabelOff
    /\ ProjectOff
    /\ RootsOff
    /\ fpc = "files"
    /\ listing \in SeqsUpTo(SessionFiles, MaxListing)
    /\ dry_run = FALSE
    /\ frun = 1
    /\ fx = 1
    /\ fmk = {}
    /\ fdisk = {}
    /\ dlCalls = <<>>
    /\ fret = <<>>

NextSession ==
    \/ DF_File
    \/ DF_Return
    \/ DF_Rerun

SpecSession == InitSession /\ [][NextSession]_vars

\* ------------------------------------------------ download_file's filter
\* File names put together from the markers the filter looks for, in several
\* spellings, and a fragment it does not look for.
Fragments ==
    {<<"T", "2">>, <<"t", "2">>, <<"a", "x", "i">>, <<"A", "X", "I">>,
     <<"A", "x", "i">>, <<"m", "a", "p", "p", "i", "n", "g">>,
     <<"A", "l", "i", "g", "n">>, <<"B", "R", "A", "I", "N">>, <<"s", "a", "g">>}

RECURSIVE Concat(_)
Concat(frags) == IF frags = <<>> THEN <<>> ELSE Head(frags) \o Concat(Tail(frags))

FileNames == {Concat(fs) : fs \in SeqsUpTo(Fragments, MaxFrags)}
FileTypes == {"source code", "nifti", "dicom"}

\* download_file is called for one file of any name and type, with either
\* value of dry_run, the target path present or not.
InitFilter ==
    /\ RunOff
    /\ ImportOff
    /\ LabelOff
    /\ ProjectOff
    /\ RootsOff
    /\ fpc = "files"
    /\ \E n \in FileNames, t \in FileTypes :
         /\ listing = <<[name |-> n, type |-> t]>>
         /\ fdisk \in {{}, {Join(FSesDir, n)}}
    /\ dry_run \in BOOLEAN
    /\ frun = 1
    /\ fx = 1
    /\ fmk = {}
    /\ dlCalls = <<>>
    /\ fret = <<>>

NextFilter ==
    \/ DF_File
    \/ DF_Return

SpecFilter == InitFilter /\ [][NextFilter]_vars

\* ------------------------------------------- Label Resolver, on its own
\* The rule download_subject / download_session / download_project applies to
\* a container's label.
Resolve(kind, label) ==
    CASE kind = "subject" -> make_subject_label(label)
      [] kind = "session" -> make_session_label(label)
      [] OTHER -> make_project_label(label)

\* The rule is applied to the raw label, and then to the label it returned.
LR_Resolve ==
    /\ lpc = "resolve"
    /\ LET arg == IF lrOut = <<>> THEN lrLabel ELSE lrOut[Len(lrOut)]
           out == Resolve(lrKind, arg)
       IN  /\ lrOut' = Append(lrOut, out)
           /\ lpc' = IF out = IndexError THEN "raised"
                     ELSE IF Len(lrOut) = 1 THEN "done" ELSE "resolve"
    /\ UNCHANGED <<lrKind, lrLabel>>
    /\ UNCHANGED notLbl

\* Any label of any kind of container.
InitLabel ==
    /\ RunOff
    /\ ImportOff
    /\ ProjectOff
    /\ FilesOff
    /\ RootsOff
    /\ lpc = "resolve"
    /\ lrKind \in {"subject", "session", "project"}
    /\ lrLabel \in LabelsUpTo(MaxLabelChars)
    /\ lrOut = <<>>

NextLabel == LR_Resolve

SpecLabel == InitLabel /\ [][NextLabel]_vars

\* ================================================================ claims
Terminal == {"Errored", "RegistrationFailed", "InferenceFailed", "Completed"}
RecordsOf(s) == {i \in 1..Len(analyses) : analyses[i].ses = s}
PathsOfPair(s) == {p \in Range(rmTried) \cup removed : p[2] = s}

\* C1: every session whose result has at least one raw path and no derivative
\* has, once main is through with it, all its raw paths deleted and an analysis
\* record with status "failed" holding the session's log file.
C1_FailedSessionPublished ==
    \A s \in handled :
        (results[s].raw # <<>> /\ results[s].deriv = <<>>) =>
            /\ Range(results[s].raw) \subseteq removed
            /\ \E i \in RecordsOf(s) :
                 /\ analyses[i].status = "failed"
                 /\ Range(results[s].logs) \subseteq Range(analyses[i].files)

\* C2: every session whose result has at least one derivative has, once main
\* is through with it, exactly one analysis record, of status "success", whose
\* uploaded files hold every raw path, every derivative path and the log path
\* exactly once each.
C2_SuccessPublishedOnce ==
    \A s \in handled :
        results[s].deriv # <<>> =>
            /\ Cardinality(RecordsOf(s)) = 1
            /\ \A i \in RecordsOf(s) :
                 /\ analyses[i].status = "success"
                 /\ \A p \in Range(results[s].raw) \cup Range(results[s].deriv)
                                \cup Range(results[s].logs) :
                        Count(p, analyses[i].files) = 1

\* C3: whatever happens to an earlier session (candidate discovery raising, all
\* candidates failing, the publication failing), the run stops only after the
\* Unit Processor was invoked for every pair of the mapping.
C3_AllPairsInvoked ==
    (mpc \in {"done", "raised"} /\ raisedBy # "logwrite") =>
        Range(invoked) = 1..npairs

\* C4: every invocation of the Unit Processor whose log file is written returns
\* a triple with exactly one log path to main and lets no exception out, also
\* when candidate discovery raised.
C4_AlwaysReturnsTriple ==
    raisedBy # "logwrite" =>
        /\ escaped = {}
        /\ \A s \in Range(invoked) :
             (s # cur \/ upc = "idle") =>
                 results[s].returned /\ Len(results[s].logs) = 1

\* C5: whenever no Unit Processor invocation is running, no handler of an
\* invocation is attached to the root logger.
C5_HandlerDetached == upc = "idle" => handlers = {}

\* C6: an exception in one candidate's iteration does not stop the loop: while
\* the loop runs the candidates before the current one are terminal and the
\* others untouched, and when the loop is left every candidate is terminal.
C6_CandidatesIsolated ==
    /\ upc = "files" =>
         /\ bound /\ fi \in 1..Len(raw_fnames)
         /\ \A i \in 1..Len(raw_fnames) :
              IF i < fi THEN cstate[i] \in Terminal ELSE cstate[i] = "Discovered"
    /\ (upc \in {"finally", "return"} /\ bound) =>
         \A i \in 1..Len(raw_fnames) : cstate[i] \in Terminal

\* C6 witness: a first candidate that raised, and a second one processed after it.
C6_Witness ==
    /\ upc = "return" /\ bound
    /\ Len(raw_fnames) >= 2
    /\ cstate[1] = "Errored"
    /\ cstate[2] = "Completed"

\* C7: a candidate for which registration and inference succeed has its output
\* path exactly once in the returned derivative list; a session with a single
\* such candidate returns deriv = [output path] and one log path.
C7_DerivativeOnce ==
    (upc = "return" /\ bound) =>
        /\ \A i \in 1..Len(raw_fnames) :
             cstate[i] = "Completed" => Count(ResultSr(cur), deriv_fnames) = 1
        /\ (Len(raw_fnames) = 1 /\ cstate[1] = "Completed") =>
             /\ deriv_fnames = <<ResultSr(cur)>>
             /\ Len(logs) = 1

\* C8: a session whose result has no raw path gets no analysis record (hence
\* no upload) and no deletion.
C8_EmptySessionUntouched ==
    \A s \in 1..npairs :
        (results[s].returned /\ results[s].raw = <<>>) =>
            /\ RecordsOf(s) = {}
            /\ PathsOfPair(s) = {}

\* C8 witness: main is through with a session that had no candidate.
C8_Witness ==
    \E s \in handled : results[s].returned /\ results[s].raw = <<>>

\* The sanitized label of the k-th session iterated.
San(k) == make_session_label(sesLabels[k])

\* How many sessions before the k-th sanitize to the same string.
EarlierSame(k) == Cardinality({j \in 1..(k - 1) : San(j) = San(k)})

\* S for the first session of S, S+'a' for the second, S+'b' for the third, ...
NthLabel(S, n) == IF n = 0 THEN S ELSE Append(S, alc[n])

\* S if it is free, else S followed by the first letter of a..z that makes a free name.
FirstFree(S, taken) ==
    IF S \notin taken THEN S
    ELSE Append(S, alc[CHOOSE j \in 1..Len(alc) :
                         /\ Append(S, alc[j]) \notin taken
                         /\ \A h \in 1..(j - 1) : Append(S, alc[h]) \in taken])

\* Whether label x is label y followed by one lowercase letter.
ExtendsByLetter(x, y) ==
    /\ Len(x) = Len(y) + 1
    /\ SubSeq(x, 1, Len(y)) = y
    /\ x[Len(x)] \in Range(alc)

\* C9 (as claimed): in the returned mapping the labels are pairwise distinct and
\* the n-th session sanitizing to S is stored under S, S+'a', S+'b', ... in
\* encounter order, whatever the other sessions' labels are.
C9_SuffixInEncounterOrder ==
    ipc = "returned" =>
        /\ \A i, j \in 1..Len(assigned) : i # j => assigned[i] # assigned[j]
        /\ \A k \in 1..Len(assigned) : assigned[k] = NthLabel(San(k), EarlierSame(k))

\* C9 (amended): every session is stored under its own key (no record is
\* overwritten), the key being its sanitized label S if S is free and otherwise
\* S followed by the first letter of a..z that gives a free key; this is S,
\* S+'a', S+'b', ... in encounter order when no session's sanitized label is
\* another's followed by one letter.
C9_FirstFreeSuffix ==
    /\ Len(sessions_out) = Len(assigned)
    /\ \A k \in 1..Len(assigned) :
         /\ sessions_out[k].key = assigned[k]
         /\ sessions_out[k].value.id = k
         /\ assigned[k] = FirstFree(San(k), {assigned[j] : j \in 1..(k - 1)})
    /\ \A i, j \in 1..Len(assigned) : i # j => assigned[i] # assigned[j]
    /\ (\A i, j \in 1..Len(assigned) : ~ExtendsByLetter(San(i), San(j))) =>
          \A k \in 1..Len(assigned) : assigned[k] = NthLabel(San(k), EarlierSame(k))

\* C9 witness: two distinct raw labels that sanitize identically, the second
\* stored with the suffix 'a', and a third session of the same label after them.
C9_Witness ==
    /\ ipc = "returned"
    /\ Len(assigned) = 3
    /\ sesLabels[1] # sesLabels[2]
    /\ San(1) = San(2) /\ San(2) = San(3)
    /\ assigned[2] = Append(San(1), "a")

\* C10 (as claimed): sessions labelled "Visit 1" and "Visit-1" are stored
\* under "Visit1" and "Visit1a".
C10_ScenarioC_Visit1a ==
    (ipc = "returned" /\ sesLabels = ScenarioC) =>
        assigned = << <<"V", "i", "s", "i", "t", "1">>,
                      <<"V", "i", "s", "i", "t", "1", "a">> >>

\* C10 (amended): sessions labelled "Visit 1" and "Visit-1" are stored under
\* "Visit" (the first token of "Visit 1") and "Visit1"; no suffix is added.
C10_ScenarioC_FirstToken ==
    (ipc = "returned" /\ sesLabels = ScenarioC) =>
        /\ assigned = << <<"V", "i", "s", "i", "t">>,
                         <<"V", "i", "s", "i", "t", "1">> >>
        /\ Keys(sessions_out) = Range(assigned)

\* C10 witness: download_subject returned for the two sessions of scenario C.
C10_Witness ==
    /\ ipc = "returned"
    /\ sesLabels = ScenarioC
    /\ Len(sessions_out) = 2

\* C11: two distinct sessions of a subject have SessionRecords with distinct
\* local folders, and every session's file is fetched into its own folder (none
\* is skipped because another session's folder already holds that target path).
C11_DistinctFolders ==
    /\ \A i, j \in 1..Len(sessions_out) :
         i # j => sessions_out[i].value.folder # sessions_out[j].value.folder
    /\ \A k \in 1..Len(assigned) : k \in Range(fetched)

\* C19: a candidate gets at most one registration call and at most one
\* inference call; a candidate whose registration returned None has had one
\* registration call, no model construction and no inference, is still in the
\* raw list, has added nothing to the derivative list, and the invocation goes
\* on (no exception leaves the Unit Processor at that candidate).
C19_NoRetryNoneSkipped ==
    (bound /\ upc \in {"files", "finally", "return"}) =>
        /\ Len(cstate) = Len(raw_fnames) /\ Len(calls) = Len(raw_fnames)
        /\ \A i \in 1..Len(raw_fnames) :
             /\ calls[i].reg <= 1 /\ calls[i].model <= 1 /\ calls[i].inf <= 1
             /\ cstate[i] = "RegistrationFailed" =>
                  /\ calls[i] = [reg |-> 1, model |-> 0, inf |-> 0]
                  /\ raw_fnames[i][1] = "raw"
                  /\ mpc = "unit" /\ cur \notin escaped
        /\ (\A i \in 1..Len(raw_fnames) :
               cstate[i] \in {"RegistrationFailed", "Discovered"}) => deriv_fnames = <<>>

\* C19 witness: the invocation returns with a candidate whose registration
\* returned None and a later candidate that completed.
C19_Witness ==
    /\ upc = "return" /\ bound
    /\ \E i, j \in 1..Len(raw_fnames) :
         i < j /\ cstate[i] = "RegistrationFailed" /\ cstate[j] = "Completed"

OriRank(ori) == CASE ori = "axi" -> 1 [] ori = "sag" -> 2 [] OTHER -> 3

\* raw is all axial paths, then all sagittal, then all coronal, each group in
\* discovery order 1, 2, ... without a gap.
InT2Order(raw) ==
    /\ \A i, j \in 1..Len(raw) :
         i < j => \/ OriRank(raw[i][3]) < OriRank(raw[j][3])
                  \/ raw[i][3] = raw[j][3] /\ raw[i][4] < raw[j][4]
    /\ \A i \in 1..Len(raw) :
         raw[i][4] = 1 + Cardinality({j \in 1..(i - 1) : raw[j][3] = raw[i][3]})

\* C20: the raw list, while the loop runs and as returned, is the candidates in
\* the order axial, sagittal, coronal whatever the outcomes of the candidates,
\* and the loop takes them one at a time in that order.
C20_CandidateOrder ==
    /\ bound => InT2Order(raw_fnames)
    /\ \A s \in 1..npairs : InT2Order(results[s].raw)
    /\ upc = "files" =>
         \A i \in 1..Len(raw_fnames) : (i < fi) <=> (cstate[i] \in Terminal)

\* C20 witness: a session with an axial, a sagittal and a coronal candidate is
\* returned after the first candidate raised and the third completed.
C20_Witness ==
    /\ upc = "return" /\ bound
    /\ Len(raw_fnames) = 3
    /\ raw_fnames[1][3] = "axi" /\ raw_fnames[2][3] = "sag" /\ raw_fnames[3][3] = "cor"
    /\ cstate[1] = "Errored" /\ cstate[3] = "Completed"

\* C15: resolving a label of any kind yields a label (the rule is total), and
\* resolving the result again gives the same label (the rule is idempotent).
C15_ResolveIdempotentTotal ==
    /\ \A k \in 1..Len(lrOut) : lrOut[k] # IndexError
    /\ Len(lrOut) = 2 => lrOut[2] = lrOut[1]

\* Whether S and S followed by each of the 26 letters are all in keys.
AllTaken(S, keys) == S \in keys /\ \A c \in Range(alc) : Append(S, c) \in keys

\* C14: a session whose sanitized label S and all 26 suffixed variants are
\* already assigned makes download_subject raise: that session is the last one
\* visited, it gets no label, and every session before it still has its own
\* record under the label it was given (nothing reused or overwritten).  Every
\* other visited session has been given a label (the probing ended).
C14_ExhaustionRaises ==
    /\ \A k \in 1..Len(sesLabels) :
         (San(k) # IndexError
            /\ AllTaken(San(k), {assigned[j] : j \in 1..(k - 1)}))
           <=> (ipc = "raised" /\ k = Len(sesLabels) /\ Len(assigned) = k - 1)
    /\ Len(sessions_out) = Len(assigned)
    /\ \A k \in 1..Len(assigned) :
         /\ sessions_out[k].key = assigned[k]
         /\ sessions_out[k].value.id = k
         /\ \A j \in 1..(k - 1) : assigned[j] # assigned[k]
    /\ ipc # "raised" => Len(assigned) = Len(sesLabels)

\* C14 witness: the shared label and its 26 variants are assigned and one more
\* session of that label has made download_subject raise.
C14_Witness ==
    /\ ipc = "raised"
    /\ Len(assigned) >= 27
    /\ AllTaken(SharedLabel, Range(assigned))
    /\ San(Len(sesLabels)) = SharedLabel

\* SessionRecords in a mapping subject -> sessions kept as items.
RECURSIVE RecordCount(_)
RecordCount(d) == IF d = <<>> THEN 0 ELSE Len(Head(d).value) + RecordCount(Tail(d))

\* C12: when download_project has returned, every subject iterated has its own
\* key and every session traversed its own SessionRecord: as many keys as
\* subjects and as many records as sessions.
C12_AllSessionsRecorded ==
    ppc \in {"import", "returned"} =>
        /\ Len(subjects_out) = Len(subRaw)
        /\ RecordCount(subjects_out) = SesDrawn(subRaw)

\* C16: import_dicom_folder raising for a session does not end
\* download_dataset, and when download_dataset returns, the mapping holds every
\* session whose import did not raise.
C16_BuildFailureIsolated ==
    /\ ~(ppc = "raised" /\ pErr = "import_dicom_folder")
    /\ ppc = "returned" =>
         /\ Len(output) = Len(subjects_out)
         /\ pErr = "none" => RecordCount(output) = RecordCount(subjects_out)

\* C13 (as claimed): a second run of the importer calls file.download for no
\* file, and no target path is fetched twice over all the runs.
C13_RerunFetchesNothing ==
    \A k \in 1..Len(dlCalls) :
        /\ dlCalls[k].run = 1
        /\ \A j \in 1..(k - 1) : dlCalls[j].name # dlCalls[k].name

\* C13 (amended): file.download is called only for a target path that does not
\* exist; a target path is fetched again only after every earlier fetch of it
\* raised and left no file; and a later run fetches only target paths whose
\* fetch in the run before raised and left no file.
C13_PresentNeverRefetched ==
    \A k \in 1..Len(dlCalls) :
        /\ ~dlCalls[k].existed
        /\ \A j \in 1..(k - 1) :
             dlCalls[j].name = dlCalls[k].name => dlCalls[j].outcome = "raiseNoFile"
        /\ dlCalls[k].run > 1 =>
             \E j \in 1..(k - 1) :
                 /\ dlCalls[j].run = dlCalls[k].run - 1
                 /\ dlCalls[j].name = dlCalls[k].name
                 /\ dlCalls[j].outcome = "raiseNoFile"

\* C13 witness: a second run has ended in which one file, fetched in the first
\* run, was not fetched again and another, whose fetch had failed, was.
C13_Witness ==
    /\ fpc = "returned" /\ frun = 2
    /\ \E j, k \in 1..Len(dlCalls) :
         /\ dlCalls[j].run = 1 /\ dlCalls[j].outcome = "ok"
         /\ dlCalls[k].run = 2 /\ dlCalls[k].name # dlCalls[j].name
         /\ \A h \in 1..Len(dlCalls) :
              dlCalls[h].name = dlCalls[j].name => h = j

\* C17: file.download raising for a file does not end download_session there:
\* the loops go on past that file, and when download_session returns every
\* file was visited and the session's (label, folder, id) is returned.
C17_DownloadFailureCaught ==
    /\ \A k \in 1..Len(dlCalls) :
         dlCalls[k].outcome # "ok" =>
             /\ ~(fpc = "raised" /\ frun = dlCalls[k].run /\ fx = dlCalls[k].file)
             /\ frun > dlCalls[k].run \/ fx > dlCalls[k].file
    /\ fpc = "returned" =>
         /\ fx = Len(listing) + 1
         /\ fret = <<FSesLabel, FSesDir, FSesId>>

\* C17 witness: download_session has returned from a run in which the
\* download of a file raised and a later file was downloaded.
C17_Witness ==
    /\ fpc = "returned"
    /\ \E j, k \in 1..Len(dlCalls) :
         /\ dlCalls[j].run = frun /\ dlCalls[k].run = frun
         /\ dlCalls[j].file < dlCalls[k].file
         /\ dlCalls[j].outcome = "raiseNoFile"
         /\ dlCalls[k].outcome = "ok"

\* The filter as claimed, every name check made on the lower-cased name.
QualifiesCI(file) ==
    /\ file.type \in {"source code", "nifti"}
    /\ Contains(Lower(file.name), <<"t", "2">>)
    /\ Contains(Lower(file.name), <<"a", "x", "i">>)
    /\ ~Contains(Lower(file.name), <<"m", "a", "p", "p", "i", "n", "g">>)
    /\ ~Contains(Lower(file.name), <<"a", "l", "i", "g", "n">>)
    /\ ~Contains(Lower(file.name), <<"b", "r", "a", "i", "n">>)

\* C18: file.download is called, and the directory made, only for a file of an
\* allowed type whose name has the T2 marker and the axial marker and none of
\* the excluded markers; for any other file neither happens.
C18_FilterOnlyIf ==
    /\ \A k \in 1..Len(dlCalls) : QualifiesCI(listing[dlCalls[k].file])
    /\ \A m \in fmk : QualifiesCI(listing[m[2]])

\* C18 witness: a file whose axial marker is in upper case was downloaded into
\* the directory made for it.
C18_Witness ==
    /\ fpc = "returned"
    /\ Len(dlCalls) = 1 /\ dlCalls[1].outcome = "ok"
    /\ Contains(listing[1].name, <<"A", "X", "I">>)
    /\ fmk = {<<1, 1>>}

\* C21: the paths main tries to delete for a session without derivative are
\* exactly that session's raw paths, each tried once and in order whether or
\* not an earlier deletion failed; nothing else is deleted: no path of a
\* session that has a derivative or no candidate, no derivative, no log file.
C21_CleanupScope ==
    /\ \A s \in handled :
         SelectSeq(rmTried, LAMBDA p : p[2] = s) =
             IF results[s].raw # <<>> /\ results[s].deriv = <<>>
             THEN results[s].raw ELSE <<>>
    /\ \A p \in Range(rmTried) :
         /\ p[1] = "raw"
         /\ results[p[2]].returned /\ results[p[2]].deriv = <<>>
         /\ p \in Range(results[p[2]].raw)
         /\ p[2] \in handled
    /\ removed \subseteq Range(rmTried)
    /\ removed \cap logfiles = {}

\* C21 witness: main is through with two sessions; for the one without
\* derivative the first deletion failed and the second succeeded, and the
\* other one was published.
C21_Witness ==
    \E s, t \in handled :
        /\ results[s].deriv = <<>> /\ Len(results[s].raw) >= 2
        /\ results[s].raw[1] \notin removed
        /\ results[s].raw[2] \in removed
        /\ results[t].deriv # <<>>
        /\ LogFilename(s) \in logfiles

\* Whether p is a raw path.
IsRaw(p) == p[1] = "raw"

\* C22: an analysis record that holds a raw file belongs to a session with a
\* derivative, and no path main deleted, or tried to delete, is in any
\* analysis record.
C22_NoOrphanedInputs ==
    /\ \A i \in 1..Len(analyses) :
         (\E f \in Range(analyses[i].files) : IsRaw(f)) =>
             results[analyses[i].ses].deriv # <<>>
    /\ \A i \in 1..Len(analyses) :
         Range(analyses[i].files) \cap (removed \cup Range(rmTried)) = {}

\* C22 witness: one session's raw files were deleted and another session's raw
\* file was uploaded.
C22_Witness ==
    /\ removed # {}
    /\ \E i \in 1..Len(analyses) : \E f \in Range(analyses[i].files) : IsRaw(f)

\* C23: the session's folder under sourcedata is the same path whichever
\* container the import is rooted at.
C23_SameFolderAnyRoot ==
    \A k1, k2 \in RootKinds :
        (rootRes[k1] # NoRoot /\ rootRes[k2] # NoRoot) =>
            rootRes[k1].folder = rootRes[k2].folder

====
